---- MODULE Spec2Model ----
(***************************************************************************)
(* Model of resplice_primers.py: the pipeline main() runs over a primer    *)
(* BED table: partition by amplicon, dedup_primers, resplice_primers,      *)
(* finalize_primer_pairings.                                               *)
(*                                                                         *)
(* A string is a sequence of symbols.  The symbols "_" and "-" and the     *)
(* decimal digits are single characters; "LEFT", "RIGHT", "splice" and the *)
(* amplicon stems stand for the runs of letters they spell, which the code *)
(* only ever tests or moves as a whole.                                    *)
(***************************************************************************)
EXTENDS Integers, Sequences, FiniteSets, TLC

\* Largest number of rows in the input BED file.
MaxRows == 5

----------------------------------------------------------------------------
\* String primitives (Python str / polars str namespace)

\* s[i : i + len(pat)] == pat
MatchAt(s, pat, i) ==
    /\ i + Len(pat) - 1 <= Len(s)
    /\ \A j \in 1..Len(pat) : s[i + j - 1] = pat[j]

\* pat in s
Contains(s, pat) == \E i \in 1..Len(s) : MatchAt(s, pat, i)

\* pl.col(..).str.replace_all(pat, ""): leftmost non-overlapping matches
RECURSIVE ReplaceAll(_, _)
ReplaceAll(s, pat) ==
    IF s = <<>> THEN <<>>
    ELSE IF MatchAt(s, pat, 1)
         THEN ReplaceAll(SubSeq(s, Len(pat) + 1, Len(s)), pat)
         ELSE <<Head(s)>> \o ReplaceAll(Tail(s), pat)

\* s.split(sep) for a one-character sep
RECURSIVE Split(_, _)
Split(s, sep) ==
    IF \A i \in 1..Len(s) : s[i] # sep THEN <<s>>
    ELSE LET i == CHOOSE k \in 1..Len(s) :
                      s[k] = sep /\ \A j \in 1..(k - 1) : s[j] # sep
         IN  <<SubSeq(s, 1, i - 1)>> \o Split(SubSeq(s, i + 1, Len(s)), sep)

\* sep.join(parts)
RECURSIVE Join(_, _)
Join(parts, sep) ==
    IF parts = <<>> THEN <<>>
    ELSE IF Len(parts) = 1 THEN parts[1]
         ELSE parts[1] \o <<sep>> \o Join(Tail(parts), sep)

\* s.rsplit(sep, 1)[0]
RSplitFirst(s, sep) ==
    IF \A i \in 1..Len(s) : s[i] # sep THEN s
    ELSE LET i == CHOOSE k \in 1..Len(s) :
                      s[k] = sep /\ \A j \in (k + 1)..Len(s) : s[j] # sep
         IN  SubSeq(s, 1, i - 1)

Digit == <<"0", "1", "2", "3", "4", "5", "6", "7", "8", "9">>

\* f"{n}" and cast(pl.Utf8) of a non-negative integer
RECURSIVE Str(_)
Str(n) ==
    IF n < 10 THEN <<Digit[n + 1]>>
    ELSE Str(n \div 10) \o <<Digit[(n % 10) + 1]>>

----------------------------------------------------------------------------
\* DataFrame primitives (a frame is a sequence of row records)

\* pl.concat(frames)
RECURSIVE Concat(_)
Concat(frames) ==
    IF frames = <<>> THEN <<>> ELSE Head(frames) \o Concat(Tail(frames))

\* the sequence with the elements of the function f over 1..n
ToSeq(f) == SubSeq(f, 1, Len(f))

\* the rows of df whose flag is set, in order
Filter(df, flags) ==
    LET F[i \in 0..Len(df)] ==
            IF i = 0 THEN <<>>
            ELSE IF flags[i] THEN Append(F[i - 1], df[i]) ELSE F[i - 1]
    IN  F[Len(df)]

\* distinct values of a sequence in order of first appearance
FirstSeen(s) ==
    Filter(s, [i \in 1..Len(s) |-> \A j \in 1..(i - 1) : s[j] # s[i]])

\* df.partition_by(col) where keys is the column col (maintain_order = True)
PartitionBy(df, keys) ==
    LET groups == FirstSeen(keys)
    IN  ToSeq([g \in 1..Len(groups) |->
                Filter(df, [i \in 1..Len(df) |-> keys[i] = groups[g]])])

\* df.select(col)
ColNAME(df)     == ToSeq([i \in 1..Len(df) |-> df[i].NAME])
ColAmplicon(df) == ToSeq([i \in 1..Len(df) |-> df[i].Amplicon])

\* Series.is_duplicated() of a column
IsDuplicated(col) ==
    ToSeq([i \in 1..Len(col) |->
            \E j \in 1..Len(col) : j # i /\ col[j] = col[i]])

\* drop("duped")
DropDuped(r) ==
    [Ref |-> r.Ref, Start |-> r.Start, Stop |-> r.Stop,
     ORIG_NAME |-> r.ORIG_NAME, NAME |-> r.NAME, INDEX |-> r.INDEX,
     SENSE |-> r.SENSE, Gene |-> r.Gene, Amplicon |-> r.Amplicon]

----------------------------------------------------------------------------
\* Input

US == "_"
HY == "-"
LEFT  == <<US, "LEFT">>
RIGHT == <<US, "RIGHT">>

\* Primer names an input file may hold: two amplicons with forward and
\* reverse primers, a spike-in reverse primer, and names with no orientation
\* (one within an amplicon that has primers, one on its own).
NamePool ==
    { <<"AMP1">> \o LEFT, <<"AMP1">> \o RIGHT,
      <<"AMP1">> \o RIGHT \o <<HY, "2">>, <<"AMP1">>,
      <<"AMP2">> \o LEFT, <<"AMP2">> \o RIGHT,
      <<"AMP3">> }

\* Row k of the file: coordinates and metadata differ from row to row.
BedRow(k, name) ==
    [Ref |-> "MN908947.3", Start |-> 100 * k, Stop |-> 100 * k + 25,
     NAME |-> name, INDEX |-> 1 + (k % 2),
     SENSE |-> IF Contains(name, LEFT) THEN "+" ELSE "-",
     Gene |-> k]

\* The file holding the given names, one per row.
BedFile(names) == ToSeq([k \in 1..Len(names) |-> BedRow(k, names[k])])

VARIABLES
    pc,                 \* position in main()
    raised,             \* exception that ended the run, "none" otherwise
    bed,                \* rows read from the input file
    partitioned_bed,    \* main: list of frames, one per Amplicon
    dedup_partitioned,  \* result of dedup_primers
    mutated_frames,     \* result of resplice_primers
    final_df            \* result of finalize_primer_pairings

vars == <<pc, raised, bed, partitioned_bed, dedup_partitioned,
          mutated_frames, final_df>>

Init ==
    /\ pc = "read"
    /\ raised = "none"
    /\ \E n \in 1..MaxRows : \E names \in [1..n -> NamePool] :
          bed = BedFile(names)
    /\ partitioned_bed = <<>>
    /\ dedup_partitioned = <<>>
    /\ mutated_frames = <<>>
    /\ final_df = <<>>

\* the Amplicon column of main()
AmpliconKey(name) ==
    ReplaceAll(ReplaceAll(ReplaceAll(ReplaceAll(ReplaceAll(name,
        LEFT), RIGHT), <<HY, "2">>), <<HY, "3">>), <<HY, "4">>)

\* main() lines 276-314: read_csv ... partition_by("Amplicon")
ReadAndPartition(rows) ==
    LET dup   == IsDuplicated(ColNAME(rows))
        table == ToSeq([i \in 1..Len(rows) |->
                    [Ref |-> rows[i].Ref, Start |-> rows[i].Start,
                     Stop |-> rows[i].Stop, ORIG_NAME |-> rows[i].NAME,
                     NAME |-> rows[i].NAME, INDEX |-> rows[i].INDEX,
                     SENSE |-> rows[i].SENSE, Gene |-> rows[i].Gene,
                     Amplicon |-> AmpliconKey(rows[i].NAME),
                     duped |-> dup[i]]])
    IN  PartitionBy(table, ColAmplicon(table))

Partition ==
    /\ pc = "read"
    /\ partitioned_bed' = ReadAndPartition(bed)
    /\ pc' = "dedup"
    /\ UNCHANGED <<raised, bed, dedup_partitioned, mutated_frames, final_df>>

----------------------------------------------------------------------------
\* dedup_primers

\* rename_duplicates writing the new name into ORIG_NAME as well
rename_duplicates_clobber(dup_frame) ==
    ToSeq([n \in 1..Len(dup_frame) |->
            [dup_frame[n] EXCEPT !.NAME = @ \o <<HY>> \o Str(n),
                                 !.ORIG_NAME = @ \o <<HY>> \o Str(n)]])

\* lines 93-114: with_row_count(offset=1), NAME <- NAME + "-" + row_nr
rename_duplicates(dup_frame) ==
    ToSeq([n \in 1..Len(dup_frame) |->
            [dup_frame[n] EXCEPT !.NAME = @ \o <<HY>> \o Str(n)]])

\* lines 87-115: new_dfs after the inner loop
split_and_rename(df) ==
    LET dup     == IsDuplicated(ColNAME(df))
        marked  == ToSeq([n \in 1..Len(df) |-> [df[n] EXCEPT !.duped = dup[n]]])
        new_dfs == PartitionBy(marked, dup)
    IN  ToSeq([i \in 1..Len(new_dfs) |->
                IF \E n \in 1..Len(new_dfs[i]) : new_dfs[i][n].duped
                THEN rename_duplicates(new_dfs[i])
                ELSE new_dfs[i]])

\* line 117: partitioned_bed[i] = df.  The inner loop of line 91 rebinds i,
\* so i is the index of the last frame of new_dfs (0-based len(new_dfs) - 1).
store_index(outer_i, new_dfs) == Len(new_dfs)

\* lines 85-117, one iteration on the list as it stands
dedup_step(st, k) ==
    IF st.raised # "none" THEN st
    ELSE LET df == st.list[k]
         IN  IF \A n \in 1..Len(df) : ~IsDuplicated(ColNAME(df))[n]
             THEN st
             ELSE LET new_dfs == split_and_rename(df)
                      i       == store_index(k, new_dfs)
                  IN  IF i > Len(st.list)
                      THEN [list |-> st.list, raised |-> "IndexError"]
                      ELSE [list |-> [st.list EXCEPT ![i] = Concat(new_dfs)],
                            raised |-> "none"]

\* lines 85-117: the list after the outer loop, or the IndexError of line 117
RECURSIVE dedup_loop(_, _)
dedup_loop(st, k) ==
    IF k > Len(st.list) THEN st ELSE dedup_loop(dedup_step(st, k), k + 1)

\* lines 85-123
dedup_primers(frames) ==
    LET done == dedup_loop([list |-> frames, raised |-> "none"], 1)
        all  == Concat(done.list)
        out  == ToSeq([n \in 1..Len(all) |-> DropDuped(all[n])])
    IN  IF done.raised # "none"
        THEN [frames |-> <<>>, raised |-> done.raised]
        ELSE [frames |-> PartitionBy(out, ColAmplicon(out)), raised |-> "none"]

DedupPrimers ==
    /\ pc = "dedup"
    /\ \E res \in {dedup_primers(partitioned_bed)} :
          /\ dedup_partitioned' = res.frames
          /\ raised' = res.raised
          /\ pc' = IF res.raised = "none" THEN "resplice" ELSE "error"
    /\ UNCHANGED <<bed, partitioned_bed, mutated_frames, final_df>>

----------------------------------------------------------------------------
\* resolve_primer_names

\* primer_pairs as zip(to_combine, combine_to)
primer_pairs_zip(to_combine, combine_to) ==
    ToSeq([a \in 1..(IF Len(to_combine) < Len(combine_to)
                     THEN Len(to_combine) ELSE Len(combine_to)) |->
            <<to_combine[a], combine_to[a]>>])

\* primer_pairs with combine_to in the outer position
primer_pairs_swapped(to_combine, combine_to) ==
    Concat(ToSeq([b \in 1..Len(combine_to) |->
             ToSeq([a \in 1..Len(to_combine) |->
                     <<to_combine[a], combine_to[b]>>])]))

\* line 144: list(product(to_combine, combine_to))
primer_pairs(to_combine, combine_to) ==
    Concat(ToSeq([a \in 1..Len(to_combine) |->
             ToSeq([b \in 1..Len(combine_to) |->
                     <<to_combine[a], combine_to[b]>>])]))

\* new_name numbering the pairs from 0
new_name_zero_based(primer, i) ==
    LET parts == Split(primer, US)
    IN  RSplitFirst(Join(SubSeq(parts, 1, Len(parts) - 1), US), HY)
          \o <<US, "splice">> \o Str(i) \o <<US>> \o parts[Len(parts)]

\* lines 151-155: the new name of one primer of the pair at enumerate index i
new_name(primer, i) ==
    LET parts == Split(primer, US)
    IN  RSplitFirst(Join(SubSeq(parts, 1, Len(parts) - 1), US), HY)
          \o <<US, "splice">> \o Str(i + 1) \o <<US>> \o parts[Len(parts)]

\* lines 144-169
resolve_primer_names(to_combine, combine_to) ==
    LET pairs == primer_pairs(to_combine, combine_to)
        new_primer_pairs ==
            ToSeq([i \in 1..Len(pairs) |->
                    <<new_name(pairs[i][1], i - 1),
                      new_name(pairs[i][2], i - 1)>>])
    IN  [primers_to_join |->
            ToSeq([i \in 1..Len(pairs) |-> pairs[i][1]])
              \o ToSeq([i \in 1..Len(pairs) |-> pairs[i][2]]),
         new_primer_names |->
            ToSeq([i \in 1..Len(pairs) |-> new_primer_pairs[i][1]])
              \o ToSeq([i \in 1..Len(pairs) |-> new_primer_pairs[i][2]])]

----------------------------------------------------------------------------
\* resplice_primers

\* line 192
fwd_primers(primers) ==
    Filter(primers, [i \in 1..Len(primers) |-> Contains(primers[i], LEFT)])

\* line 193
rev_primers(primers) ==
    Filter(primers, [i \in 1..Len(primers) |-> Contains(primers[i], RIGHT)])

\* is_odd with the test inverted
is_odd_inverted(df) == Len(df) % 2 = 0

\* line 189
is_odd(df) == Len(df) % 2 # 0

\* lines 195-202: the list iterated in the outer position of the product
to_combine_of(fwd, rev) == IF Len(fwd) > Len(rev) THEN rev ELSE fwd

\* lines 195-202: the list iterated in the inner position of the product
combine_to_of(fwd, rev) == IF Len(fwd) > Len(rev) THEN fwd ELSE rev

\* line 214: pl.DataFrame({"NAME": keys}).join(df, how="left", on="NAME")
left_join(keys, df) ==
    Concat(ToSeq([k \in 1..Len(keys) |->
             Filter(df, [n \in 1..Len(df) |-> df[n].NAME = keys[k]])]))

\* lines 212-227.  validate="m:1" raises when NAME repeats in df.  A frame
\* built from an empty list has no string NAME column: whether the join
\* accepts it depends on the polars build, so both outcomes are given by
\* empty_join ("frame" or "raise").
rename_joined(df, names, empty_join) ==
    LET joined == left_join(names.primers_to_join, df)
    IN  IF \E n \in 1..Len(df) : IsDuplicated(ColNAME(df))[n]
        THEN [kind |-> "raise", raised |-> "ComputeError", frame |-> <<>>]
        ELSE IF names.primers_to_join = <<>>
        THEN [kind |-> empty_join, raised |-> "ComputeError", frame |-> <<>>]
        ELSE IF Len(joined) # Len(names.new_primer_names)
        THEN [kind |-> "raise", raised |-> "ShapeError", frame |-> <<>>]
        ELSE [kind |-> "frame", raised |-> "none",
              frame |-> ToSeq([n \in 1..Len(joined) |->
                          [joined[n] EXCEPT
                              !.NAME = names.new_primer_names[n]]])]

\* lines 189-230: the body of the loop for one frame
resplice_frame(df, empty_join) ==
    IF is_odd(df)
    THEN LET primers == ColNAME(df)
             fwd     == fwd_primers(primers)
             rev     == rev_primers(primers)
             names   == resolve_primer_names(to_combine_of(fwd, rev),
                                             combine_to_of(fwd, rev))
         IN  IF Len(fwd) = Len(rev)
             THEN [kind |-> "break", raised |-> "none", frame |-> <<>>]
             ELSE IF Len(names.primers_to_join) # Len(names.new_primer_names)
             THEN [kind |-> "raise", raised |-> "AssertionError",
                   frame |-> <<>>]
             ELSE rename_joined(df, names, empty_join)
    ELSE [kind |-> "frame", raised |-> "none", frame |-> df]

\* after_break for continue in place of break
after_break_continue(frames, k) == k + 1

\* line 202: where the loop over dedup_partitioned resumes after break
after_break(frames, k) == Len(frames) + 1

\* lines 187-232
RECURSIVE resplice_loop(_, _, _, _)
resplice_loop(frames, k, acc, empty_join) ==
    IF k > Len(frames) THEN [frames |-> acc, raised |-> "none"]
    ELSE LET r == resplice_frame(frames[k], empty_join)
         IN  IF r.kind = "raise"
             THEN [frames |-> <<>>, raised |-> r.raised]
             ELSE IF r.kind = "break"
             THEN resplice_loop(frames, after_break(frames, k), acc,
                                empty_join)
             ELSE resplice_loop(frames, k + 1, Append(acc, r.frame),
                                empty_join)

resplice_primers(frames, empty_join) ==
    resplice_loop(frames, 1, <<>>, empty_join)

ResplicePrimers ==
    /\ pc = "resplice"
    /\ \E empty_join \in {"frame", "raise"} :
         \E res \in {resplice_primers(dedup_partitioned, empty_join)} :
            /\ mutated_frames' = res.frames
            /\ raised' = res.raised
            /\ pc' = IF res.raised = "none" THEN "finalize" ELSE "error"
    /\ UNCHANGED <<bed, partitioned_bed, dedup_partitioned, final_df>>

----------------------------------------------------------------------------
\* finalize_primer_pairings

\* lines 251-261
is_keeper(df) ==
    /\ Len(fwd_primers(ColNAME(df))) > 0
    /\ Len(rev_primers(ColNAME(df))) > 0

\* lines 249-266: pl.concat of an empty list raises
finalize_primer_pairings(frames) ==
    LET final_frames ==
            Filter(frames, [i \in 1..Len(frames) |-> is_keeper(frames[i])])
    IN  IF final_frames = <<>>
        THEN [frame |-> <<>>, raised |-> "ValueError"]
        ELSE [frame |-> Concat(final_frames), raised |-> "none"]

FinalizePrimerPairings ==
    /\ pc = "finalize"
    /\ \E res \in {finalize_primer_pairings(mutated_frames)} :
          /\ final_df' = res.frame
          /\ raised' = res.raised
          /\ pc' = IF res.raised = "none" THEN "done" ELSE "error"
    /\ UNCHANGED <<bed, partitioned_bed, dedup_partitioned, mutated_frames>>

----------------------------------------------------------------------------
Next ==
    \/ Partition
    \/ DedupPrimers
    \/ ResplicePrimers
    \/ FinalizePrimerPairings

Spec == Init /\ [][Next]_vars

----------------------------------------------------------------------------
\* Vocabulary of the properties

\* dedup_primers has returned
Deduped == pc \in {"resplice", "finalize", "done"}
              \/ (pc = "error" /\ raised # "IndexError")

\* resplice_primers has been called and has returned or raised
ResolverRan == pc \in {"finalize", "done"}
                  \/ (pc = "error" /\ raised # "IndexError")

ResolverErrors == {"ComputeError", "ShapeError", "AssertionError"}

\* resplice_primers has returned
Resolved == ResolverRan /\ raised \notin ResolverErrors

LeftIdx(df)  == {i \in 1..Len(df) : Contains(df[i].NAME, LEFT)}
RightIdx(df) == {i \in 1..Len(df) : Contains(df[i].NAME, RIGHT)}
NumFwd(df)   == Cardinality(LeftIdx(df))
NumRev(df)   == Cardinality(RightIdx(df))
Min(a, b) == IF a < b THEN a ELSE b
Max(a, b) == IF a < b THEN b ELSE a
NumPairs(df) == Min(NumFwd(df), NumRev(df)) * Max(NumFwd(df), NumRev(df))

UniqueNames(df) ==
    \A i, j \in 1..Len(df) : i # j => df[i].NAME # df[j].NAME
HasRepeat(df) == ~UniqueNames(df)
OddCount(df)  == Len(df) % 2 = 1
EvenCount(df) == Len(df) % 2 = 0

\* an odd group with unique names and f # r
Resolvable(df) == OddCount(df) /\ UniqueNames(df) /\ NumFwd(df) # NumRev(df)
\* an odd group with f = r
Degenerate(df) == OddCount(df) /\ NumFwd(df) = NumRev(df)
\* an odd group on which the join may raise
MayRaise(df) ==
    /\ OddCount(df) /\ NumFwd(df) # NumRev(df)
    /\ (HasRepeat(df) \/ NumPairs(df) = 0)

\* the j-th smallest element of a set of integers
Nth(S, j) == CHOOSE x \in S : Cardinality({y \in S : y < x}) = j - 1

\* the token _splice{i}_
SpliceToken(i) == <<US, "splice">> \o Str(i) \o <<US>>

\* every input name carries an orientation
OrientedInput ==
    \A k \in 1..Len(bed) :
        Contains(bed[k].NAME, LEFT) \/ Contains(bed[k].NAME, RIGHT)

\* every input row is in the Deduplicator's output exactly once
RowsKept ==
    /\ Len(Concat(dedup_partitioned)) = Len(bed)
    /\ \A k \in 1..Len(bed) :
          Cardinality({n \in 1..Len(Concat(dedup_partitioned)) :
                          Concat(dedup_partitioned)[n].Start = bed[k].Start}) = 1

\* all columns but NAME agree
SameButName(r, q) ==
    /\ r.Ref = q.Ref /\ r.Start = q.Start /\ r.Stop = q.Stop
    /\ r.ORIG_NAME = q.ORIG_NAME /\ r.INDEX = q.INDEX
    /\ r.SENSE = q.SENSE /\ r.Gene = q.Gene /\ r.Amplicon = q.Amplicon

\* r has the name and the metadata of the input row b
FromInputRow(r, b) ==
    /\ r.ORIG_NAME = b.NAME
    /\ r.Ref = b.Ref /\ r.Start = b.Start /\ r.Stop = b.Stop
    /\ r.INDEX = b.INDEX /\ r.SENSE = b.SENSE /\ r.Gene = b.Gene

----------------------------------------------------------------------------
\* C1: once dedup_primers has returned (on an input whose names all carry an
\* orientation), the names within every group of its output are pairwise
\* distinct.
C1_UniqueNamesAfterDedup ==
    (Deduped /\ OrientedInput) =>
        \A g \in 1..Len(dedup_partitioned) : UniqueNames(dedup_partitioned[g])

\* C2: dedup_primers neither loses nor duplicates records: every input row
\* (of an input whose names all carry an orientation) is in its output
\* exactly once, in the group of its own Amplicon key (one group per key),
\* and a group without a repeated name comes out unchanged.
C2_DedupKeepsRecords ==
    (Deduped /\ OrientedInput) =>
        LET out == Concat(dedup_partitioned)
        IN  /\ Len(out) = Len(bed)
            /\ \A k \in 1..Len(bed) :
                  Cardinality({n \in 1..Len(out) :
                                  FromInputRow(out[n], bed[k])}) = 1
            /\ \A g \in 1..Len(dedup_partitioned) :
                  \A n \in 1..Len(dedup_partitioned[g]) :
                     dedup_partitioned[g][n].Amplicon =
                        AmpliconKey(dedup_partitioned[g][n].ORIG_NAME)
            /\ \A g, h \in 1..Len(dedup_partitioned) :
                  g # h => dedup_partitioned[g][1].Amplicon #
                              dedup_partitioned[h][1].Amplicon
            /\ \A g \in 1..Len(partitioned_bed) :
                  UniqueNames(partitioned_bed[g]) =>
                     \E h \in 1..Len(dedup_partitioned) :
                        /\ Len(dedup_partitioned[h]) = Len(partitioned_bed[g])
                        /\ \A n \in 1..Len(partitioned_bed[g]) :
                              dedup_partitioned[h][n] =
                                 DropDuped(partitioned_bed[g][n])

C4_SpliceIndexPairing ==
    Resolved =>
        \A g \in 1..Len(mutated_frames) :
            Resolvable(dedup_partitioned[g]) =>
                \A i \in 1..NumPairs(dedup_partitioned[g]) :
                    /\ Cardinality({n \in LeftIdx(mutated_frames[g]) :
                          Contains(mutated_frames[g][n].NAME,
                                   SpliceToken(i))}) = 1
                    /\ Cardinality({n \in RightIdx(mutated_frames[g]) :
                          Contains(mutated_frames[g][n].NAME,
                                   SpliceToken(i))}) = 1

\* a resolved group with several pairings, the last index on both sides
C4_Witness ==
    /\ Resolved
    /\ \E g \in 1..Len(mutated_frames) :
          /\ Resolvable(dedup_partitioned[g])
          /\ NumPairs(dedup_partitioned[g]) >= 2
          /\ \E n \in LeftIdx(mutated_frames[g]) :
                Contains(mutated_frames[g][n].NAME,
                         SpliceToken(NumPairs(dedup_partitioned[g])))
          /\ \E n \in RightIdx(mutated_frames[g]) :
                Contains(mutated_frames[g][n].NAME,
                         SpliceToken(NumPairs(dedup_partitioned[g])))

\* C5: every record any stage has produced, the final output included,
\* carries the name and the metadata of one input row in ORIG_NAME, Ref,
\* Start, Stop, INDEX, SENSE and Gene.
C5_OnlyNameRewritten ==
    /\ \A n \in 1..Len(final_df) :
          \E k \in 1..Len(bed) : FromInputRow(final_df[n], bed[k])
    /\ \A g \in 1..Len(mutated_frames) : \A n \in 1..Len(mutated_frames[g]) :
          \E k \in 1..Len(bed) : FromInputRow(mutated_frames[g][n], bed[k])
    /\ \A g \in 1..Len(dedup_partitioned) :
          \A n \in 1..Len(dedup_partitioned[g]) :
             \E k \in 1..Len(bed) :
                FromInputRow(dedup_partitioned[g][n], bed[k])

\* a final output with a pass-through record and a synthesized record, after
\* the Deduplicator renamed a record
C5_Witness ==
    /\ pc = "done"
    /\ \E n \in 1..Len(final_df) : final_df[n].NAME = final_df[n].ORIG_NAME
    /\ \E n \in 1..Len(final_df) :
          /\ Contains(final_df[n].NAME, <<US, "splice">>)
          /\ Contains(final_df[n].NAME, <<HY, "1">>)
    /\ \E g \in 1..Len(dedup_partitioned) :
          \E n \in 1..Len(dedup_partitioned[g]) :
             dedup_partitioned[g][n].NAME # dedup_partitioned[g][n].ORIG_NAME

\* C6 as stated: once the Resolver has returned, every group of its input
\* with an even count and unique names is in its output, unchanged.
C6_EvenGroupsUnchanged_AsStated ==
    Resolved =>
        \A g \in 1..Len(dedup_partitioned) :
            (EvenCount(dedup_partitioned[g]) /\ UniqueNames(dedup_partitioned[g]))
                => \E h \in 1..Len(mutated_frames) :
                      mutated_frames[h] = dedup_partitioned[g]

\* C6 amended: once the Resolver has returned, every group of its input with
\* an even count and unique names that no odd group with f = r precedes is
\* in its output at the same position, unchanged.
C6_EvenGroupsUnchanged ==
    Resolved =>
        \A g \in 1..Len(dedup_partitioned) :
            ( /\ EvenCount(dedup_partitioned[g])
              /\ UniqueNames(dedup_partitioned[g])
              /\ \A h \in 1..(g - 1) : ~Degenerate(dedup_partitioned[h]) )
                => /\ g <= Len(mutated_frames)
                   /\ mutated_frames[g] = dedup_partitioned[g]

\* an even group with unique names returned unchanged after another group
C6_Witness ==
    /\ Resolved
    /\ \E g \in 2..Len(mutated_frames) :
          /\ EvenCount(dedup_partitioned[g])
          /\ UniqueNames(dedup_partitioned[g])
          /\ mutated_frames[g] = dedup_partitioned[g]

\* C7: when the first odd group with f = r is at position d, the Resolver
\* raises only if a group before d makes the join raise; otherwise it
\* returns exactly the d - 1 results of the groups before d (an even group
\* as it was, a resolved group with its 2 * min * max records).
C7_DegenerateStops ==
    ResolverRan =>
        \A d \in 1..Len(dedup_partitioned) :
            ( /\ Degenerate(dedup_partitioned[d])
              /\ \A h \in 1..(d - 1) : ~Degenerate(dedup_partitioned[h]) )
                => /\ raised \in ResolverErrors =>
                        \E h \in 1..(d - 1) : MayRaise(dedup_partitioned[h])
                   /\ raised \notin ResolverErrors =>
                        /\ Len(mutated_frames) = d - 1
                        /\ \A h \in 1..(d - 1) :
                              IF EvenCount(dedup_partitioned[h])
                              THEN mutated_frames[h] = dedup_partitioned[h]
                              ELSE Len(mutated_frames[h]) =
                                      2 * NumPairs(dedup_partitioned[h])

\* the Resolver stopped at an odd group with f = r that has groups before
\* and after it
C7_Witness ==
    /\ pc = "done"
    /\ \E d \in 2..(Len(dedup_partitioned) - 1) :
          /\ Degenerate(dedup_partitioned[d])
          /\ Len(mutated_frames) = d - 1

\* C8: in a group with repeated names the Deduplicator renames each record
\* of a repeated name to name-rank, rank being its 1-based position among
\* the records of the same name, and leaves the other records' names alone
\* (stated for the runs in which the Deduplicator returns every input row
\* once, on an input whose names all carry an orientation).
C8_RankWithinName ==
    (Deduped /\ OrientedInput /\ RowsKept) =>
        \A g \in 1..Len(partitioned_bed) :
            HasRepeat(partitioned_bed[g]) =>
                \A n \in 1..Len(partitioned_bed[g]) :
                    LET df   == partitioned_bed[g]
                        same == {j \in 1..Len(df) : df[j].NAME = df[n].NAME}
                        rank == Cardinality({j \in same : j <= n})
                        want == IF Cardinality(same) > 1
                                THEN df[n].NAME \o <<HY>> \o Str(rank)
                                ELSE df[n].NAME
                    IN  \A h \in 1..Len(dedup_partitioned) :
                          \A m \in 1..Len(dedup_partitioned[h]) :
                             dedup_partitioned[h][m].Start = df[n].Start
                                => dedup_partitioned[h][m].NAME = want

\* the name without its orientation token and without a numeric suffix
StrippedBase(name) ==
    LET base == ReplaceAll(ReplaceAll(name, LEFT), RIGHT)
    IN  IF Len(base) >= 2 /\ base[Len(base) - 1] = HY
           /\ \E c \in 1..Len(Digit) : base[Len(base)] = Digit[c]
        THEN SubSeq(base, 1, Len(base) - 2)
        ELSE base

\* C9: every synthesized name is stripped_base _splice{i+1}_ LEFT|RIGHT,
\* for the primer it was built from and the 0-based position i of its pair.
C9_SynthesizedNameForm ==
    Resolved =>
        \A g \in 1..Len(mutated_frames) :
            Resolvable(dedup_partitioned[g]) =>
                \A n \in 1..Len(mutated_frames[g]) :
                    LET pairs  == NumPairs(dedup_partitioned[g])
                        i      == (n - 1) % pairs
                        primer == CHOOSE r \in
                                    {dedup_partitioned[g][k] :
                                       k \in 1..Len(dedup_partitioned[g])} :
                                    r.Start = mutated_frames[g][n].Start
                        suffix == IF Contains(primer.NAME, LEFT)
                                  THEN "LEFT" ELSE "RIGHT"
                    IN  mutated_frames[g][n].NAME =
                           StrippedBase(primer.NAME) \o SpliceToken(i + 1)
                              \o <<suffix>>

\* the records of a resolved group's input on the shorter side, in order
MinorityIdx(df) ==
    IF NumFwd(df) < NumRev(df) THEN LeftIdx(df) ELSE RightIdx(df)
MajorityIdx(df) ==
    IF NumFwd(df) < NumRev(df) THEN RightIdx(df) ELSE LeftIdx(df)

\* C10: in the output of a resolved group with minority list m and majority
\* list M, the records carrying splice index k are exactly two, built from
\* m[(k-1) div |M|] and M[(k-1) mod |M|] (0-based).
C10_MinorityOuterOrder ==
    Resolved =>
        \A g \in 1..Len(mutated_frames) :
            Resolvable(dedup_partitioned[g]) =>
                LET df  == dedup_partitioned[g]
                    out == mutated_frames[g]
                    nM  == Cardinality(MajorityIdx(df))
                IN  \A k \in 1..NumPairs(df) :
                      LET carry == {n \in 1..Len(out) :
                                      Contains(out[n].NAME, SpliceToken(k))}
                          mino  == df[Nth(MinorityIdx(df), ((k - 1) \div nM) + 1)]
                          majo  == df[Nth(MajorityIdx(df), ((k - 1) % nM) + 1)]
                      IN  /\ Cardinality(carry) = 2
                          /\ \E n \in carry : SameButName(out[n], mino)
                          /\ \E n \in carry : SameButName(out[n], majo)

\* a resolved group with two minority and three majority primers
C10_Witness ==
    /\ Resolved
    /\ \E g \in 1..Len(mutated_frames) :
          /\ Resolvable(dedup_partitioned[g])
          /\ Cardinality(MinorityIdx(dedup_partitioned[g])) >= 2
          /\ Cardinality(MajorityIdx(dedup_partitioned[g])) >= 3
          /\ Len(mutated_frames[g]) = 12
====
